---- MODULE Spec2Model ----
(***************************************************************************)
(* GF(2^8) arithmetic of galois-js (src/src/gf256.ts): the static helpers  *)
(* (mulByte, isGenerator, findAllGenerators), the GF256 constructor that   *)
(* builds the exp/log tables, and the instance methods that read them.     *)
(*                                                                         *)
(* Every method is one action.  A call leaves its name, its arguments and  *)
(* its outcome (a returned value or a thrown error) in op/args/ret/err;    *)
(* Return is the caller taking that outcome before the next call.          *)
(* A thrown Error is modelled by its kind (the source throws plain Error   *)
(* objects that differ in their message only).                             *)
(***************************************************************************)
EXTENDS Integers, Sequences, FiniteSets, TLC

VARIABLES
    constructed,    \* TRUE once the constructor has returned a GF256
    poly,           \* GF256.poly
    gen,            \* GF256.gen
    exp,            \* GF256.exp: Uint8Array(512), indices 0..511
    log,            \* GF256.log: Uint8Array(256), indices 0..255
    op,             \* the call whose outcome is pending, "none" between calls
    args,           \* the arguments of that call
    ret,            \* <<v>> when it returned the value v, <<>> when it threw
    err             \* the kind of Error it threw, "none" when it returned

vars == <<constructed, poly, gen, exp, log, op, args, ret, err>>
fieldVars == <<constructed, poly, gen, exp, log>>

----------------------------------------------------------------------------
(* Program constants *)

Polynomials_AES == 283
Polynomials_REED_SOLOMON == 285
Generators_AES == 3
Generators_REED_SOLOMON == 229
Generators_FAST == 2

fieldSize == 255
ExpLength == 512
LogLength == 256
ByteMax == 255
UInt16Max == 65535

Byte == 0..ByteMax

----------------------------------------------------------------------------
(* Outcomes of a call *)

NoValue == 0 - 1
Ok(v) == [err |-> "none", val |-> v]
Err(e) == [err |-> e, val |-> NoValue]
IsOk(r) == r.err = "none"

----------------------------------------------------------------------------
(* Bit operations of the source, on non-negative integers of at most 16    *)
(* bits (the widest value mulByte's shifted operand reaches).              *)

RECURSIVE BitXor(_, _)
BitXor(a, b) ==
    IF a = 0 THEN b
    ELSE IF b = 0 THEN a
    ELSE (((a % 2) + (b % 2)) % 2) + (2 * BitXor(a \div 2, b \div 2))

NibbleXor == [a \in 0..15 |-> [b \in 0..15 |-> BitXor(a, b)]]

\* a ^ b, four bits at a time
RECURSIVE Xor(_, _)
Xor(a, b) ==
    IF a = 0 THEN b
    ELSE IF b = 0 THEN a
    ELSE NibbleXor[a % 16][b % 16] + (16 * Xor(a \div 16, b \div 16))

\* a store into a Uint8Array keeps the low 8 bits
ToUint8(v) == v % 256

----------------------------------------------------------------------------
(* validateByte, validateUInt16 *)

validateByte(n) == n \in Int /\ n >= 0 /\ n <= ByteMax
validateUInt16(n) == n \in Int /\ n >= 0 /\ n <= UInt16Max

----------------------------------------------------------------------------
(* GF256.mulByte *)

\* the body of the for loop, iterations i..7, on validated operands
RECURSIVE mulByteLoop(_, _, _, _, _)
mulByteLoop(i, a, b, res, p) ==
    IF i >= 8 THEN res
    ELSE LET res1 == IF b % 2 # 0 THEN Xor(res, a) ELSE res
             hi   == ((a \div 128) % 2) * 128
             a1   == a * 2
             a2   == IF hi # 0 THEN Xor(a1, p % 256) ELSE a1
         IN mulByteLoop(i + 1, a2, b \div 2, res1, p)

\* mulByte accepting only polynomials of degree 8 (bit 8 the highest set)
mulByteDegree8Only(a, b, p) ==
    IF ~validateByte(a) \/ ~validateByte(b) \/ ~validateUInt16(p)
       \/ (p \div 256) # 1
    THEN Err("OutOfRange")
    ELSE Ok(mulByteLoop(0, a, b, 0, p) % 256)

mulByte(a, b, p) ==
    IF ~validateByte(a) \/ ~validateByte(b) \/ ~validateUInt16(p)
    THEN Err("OutOfRange")
    ELSE Ok(mulByteLoop(0, a, b, 0, p) % 256)

----------------------------------------------------------------------------
(* GF256.isGenerator *)

\* isGeneratorStep without seen.add(x)
isGeneratorStepWithoutAdd(s, p, g) ==
    IF s.returned THEN s
    ELSE IF s.x \in s.seen THEN [s EXCEPT !.returned = TRUE]
    ELSE [s EXCEPT !.x = mulByte(s.x, g, p).val, !.i = @ + 1]

\* one iteration of the for loop; s.returned records the early return
isGeneratorStep(s, p, g) ==
    IF s.returned THEN s
    ELSE IF s.x \in s.seen THEN [s EXCEPT !.returned = TRUE]
    ELSE [s EXCEPT !.seen = @ \cup {s.x}, !.x = mulByte(s.x, g, p).val,
                   !.i = @ + 1]

\* at most n successive iterations (i < fieldSize) from loop state s
RECURSIVE isGeneratorLoop(_, _, _, _)
isGeneratorLoop(n, s, p, g) ==
    IF n = 0 \/ s.returned \/ ~(s.i < fieldSize) THEN s
    ELSE IF n = 1 THEN isGeneratorStep(s, p, g)
    ELSE isGeneratorLoop(n - (n \div 2), isGeneratorLoop(n \div 2, s, p, g), p, g)

isGenerator(p, g) ==
    IF ~validateUInt16(p) \/ ~validateByte(g) THEN Err("OutOfRange")
    ELSE LET s == isGeneratorLoop(256,
                      [i |-> 0, x |-> 1, seen |-> {}, returned |-> FALSE], p, g)
         IN IF s.returned THEN Ok(FALSE)
            ELSE Ok(Cardinality(s.seen) = fieldSize)

----------------------------------------------------------------------------
(* GF256.findAllGenerators *)

\* one iteration of the for loop (i < 255): test candidate s.i
findAllGeneratorsStep(s, p) ==
    [i          |-> s.i + 1,
     generators |-> IF isGenerator(p, s.i).val
                    THEN Append(s.generators, s.i)
                    ELSE s.generators]

\* at most n successive iterations from loop state s
RECURSIVE findAllGeneratorsLoop(_, _, _)
findAllGeneratorsLoop(n, s, p) ==
    IF n = 0 \/ ~(s.i < 255) THEN s
    ELSE IF n = 1 THEN findAllGeneratorsStep(s, p)
    ELSE findAllGeneratorsLoop(n - (n \div 2),
             findAllGeneratorsLoop(n \div 2, s, p), p)

findAllGenerators(p) ==
    IF ~validateUInt16(p) THEN Err("OutOfRange")
    ELSE Ok(findAllGeneratorsLoop(256, [i |-> 2, generators |-> <<>>], p).generators)

----------------------------------------------------------------------------
(* GF256 constructor: the table build *)

\* one iteration of the first for loop: exp[i] = x; log[x] = i; x = x * gen
constructorStep(s, p, g) ==
    [i   |-> s.i + 1,
     x   |-> mulByte(s.x, g, p).val,
     exp |-> [s.exp EXCEPT ![s.i] = ToUint8(s.x)],
     log |-> [s.log EXCEPT ![s.x] = ToUint8(s.i)]]

\* at most n successive iterations (i < 255) from loop state s
RECURSIVE constructorLoop(_, _, _, _)
constructorLoop(n, s, p, g) ==
    IF n = 0 \/ ~(s.i < 255) THEN s
    ELSE IF n = 1 THEN constructorStep(s, p, g)
    ELSE constructorLoop(n - (n \div 2), constructorLoop(n \div 2, s, p, g), p, g)

\* duplicateStep copying to offset 256: exp[i + 256] = exp[i]
duplicateStepAt256(s) ==
    [i |-> s.i + 1, exp |-> [s.exp EXCEPT ![s.i + 256] = s.exp[s.i]]]

\* one iteration of the second for loop: exp[i + 255] = exp[i]
duplicateStep(s) ==
    [i |-> s.i + 1, exp |-> [s.exp EXCEPT ![s.i + 255] = s.exp[s.i]]]

\* at most n successive iterations (i <= 255) from loop state s
RECURSIVE duplicateLoop(_, _)
duplicateLoop(n, s) ==
    IF n = 0 \/ ~(s.i <= 255) THEN s
    ELSE IF n = 1 THEN duplicateStep(s)
    ELSE duplicateLoop(n - (n \div 2), duplicateLoop(n \div 2, s))

\* new Uint8Array(n): n zero bytes at indices 0..n-1
NewUint8Array(n) == [k \in 0..(n - 1) |-> 0]

\* constructor without the isGenerator check
constructorUnchecked(p, g) ==
    IF ~validateUInt16(p) \/ ~validateByte(g) THEN Err("OutOfRange")
    ELSE LET s == constructorLoop(256,
                      [i   |-> 0,
                       x   |-> 1,
                       exp |-> NewUint8Array(ExpLength),
                       log |-> NewUint8Array(LogLength)], p, g)
             d == duplicateLoop(256, [i |-> 0, exp |-> s.exp])
         IN Ok([poly |-> p, gen |-> g, exp |-> d.exp, log |-> s.log])

\* new GF256(p, g): the instance's fields, or the Error thrown
constructor(p, g) ==
    IF ~validateUInt16(p) \/ ~validateByte(g) THEN Err("OutOfRange")
    ELSE IF ~isGenerator(p, g).val THEN Err("InvalidGenerator")
    ELSE LET s == constructorLoop(256,
                      [i   |-> 0,
                       x   |-> 1,
                       exp |-> NewUint8Array(ExpLength),
                       log |-> NewUint8Array(LogLength)], p, g)
             d == duplicateLoop(256, [i |-> 0, exp |-> s.exp])
         IN Ok([poly |-> p, gen |-> g, exp |-> d.exp, log |-> s.log])

----------------------------------------------------------------------------
(* Field arithmetic: the instance methods, reading this.exp and this.log *)

\* mul returning 0 only when both operands are 0
mulZeroWhenBothZero(a, b) ==
    IF ~validateByte(a) \/ ~validateByte(b) THEN Err("OutOfRange")
    ELSE IF a = 0 /\ b = 0 THEN Ok(0)
    ELSE LET logSum == log[a] + log[b]
         IN Ok(exp[logSum])

\* mul reducing the sum of logarithms modulo 256
mulSumMod256(a, b) ==
    IF ~validateByte(a) \/ ~validateByte(b) THEN Err("OutOfRange")
    ELSE IF a = 0 \/ b = 0 THEN Ok(0)
    ELSE LET logSum == log[a] + log[b]
         IN Ok(exp[logSum % 256])

mul(a, b) ==
    IF ~validateByte(a) \/ ~validateByte(b) THEN Err("OutOfRange")
    ELSE IF a = 0 \/ b = 0 THEN Ok(0)
    ELSE LET logSum == log[a] + log[b]
         IN Ok(exp[logSum])

\* div wrapping a negative difference by 256
divWrapBy256(a, b) ==
    IF ~validateByte(a) \/ ~validateByte(b) THEN Err("OutOfRange")
    ELSE IF b = 0 THEN Err("DivisionByZero")
    ELSE IF a = 0 THEN Ok(0)
    ELSE LET logDiff == log[a] - log[b]
         IN Ok(exp[IF logDiff < 0 THEN logDiff + 256 ELSE logDiff])

\* div taking the zero-numerator shortcut before the zero-divisor check
divZeroNumeratorFirst(a, b) ==
    IF ~validateByte(a) \/ ~validateByte(b) THEN Err("OutOfRange")
    ELSE IF a = 0 THEN Ok(0)
    ELSE IF b = 0 THEN Err("DivisionByZero")
    ELSE LET logDiff == log[a] - log[b]
         IN Ok(exp[IF logDiff < 0 THEN logDiff + 255 ELSE logDiff])

div(a, b) ==
    IF ~validateByte(a) \/ ~validateByte(b) THEN Err("OutOfRange")
    ELSE IF b = 0 THEN Err("DivisionByZero")
    ELSE IF a = 0 THEN Ok(0)
    ELSE LET logDiff == log[a] - log[b]
         IN Ok(exp[IF logDiff < 0 THEN logDiff + 255 ELSE logDiff])

\* inv reading exp[254 - log[a]]
invOffByOne(a) ==
    IF ~validateByte(a) THEN Err("OutOfRange")
    ELSE IF a = 0 THEN Err("NoInverseForZero")
    ELSE Ok(exp[254 - log[a]])

inv(a) ==
    IF ~validateByte(a) THEN Err("OutOfRange")
    ELSE IF a = 0 THEN Err("NoInverseForZero")
    ELSE Ok(exp[255 - log[a]])

add(a, b) ==
    IF ~validateByte(a) \/ ~validateByte(b) THEN Err("OutOfRange")
    ELSE Ok(Xor(a, b))

\* sub as the integer difference kept in a byte
subArithmetic(a, b) ==
    IF ~validateByte(a) \/ ~validateByte(b) THEN Err("OutOfRange")
    ELSE Ok(ToUint8(a - b))

sub(a, b) ==
    IF ~validateByte(a) \/ ~validateByte(b) THEN Err("OutOfRange")
    ELSE Ok(Xor(a, b))

----------------------------------------------------------------------------
(* Polynomial operations.  A Uint8Array is a sequence of bytes; the        *)
(* source's index k is the sequence's index k + 1.                         *)

\* evaluateLoop stopping above the constant term (i > 0 for i >= 0)
RECURSIVE evaluateLoopSkipsConstant(_, _, _, _)
evaluateLoopSkipsConstant(coefficients, x, i, result) ==
    IF i < 1 THEN Ok(result)
    ELSE LET m == mul(result, x)
         IN IF ~IsOk(m) THEN m
            ELSE LET s == add(m.val, coefficients[i + 1])
                 IN IF ~IsOk(s) THEN s
                    ELSE evaluateLoopSkipsConstant(coefficients, x, i - 1, s.val)

\* the Horner loop from index i (0-based) down to 0; a throw ends it
RECURSIVE evaluateLoop(_, _, _, _)
evaluateLoop(coefficients, x, i, result) ==
    IF i < 0 THEN Ok(result)
    ELSE LET m == mul(result, x)
         IN IF ~IsOk(m) THEN m
            ELSE LET s == add(m.val, coefficients[i + 1])
                 IN IF ~IsOk(s) THEN s
                    ELSE evaluateLoop(coefficients, x, i - 1, s.val)

evaluate(coefficients, x) ==
    IF ~validateByte(x) THEN Err("OutOfRange")
    ELSE IF Len(coefficients) = 0 THEN Err("EmptyPolynomial")
    ELSE IF x = 0 THEN Err("InvalidEvaluationPoint")
    ELSE LET degree == Len(coefficients) - 1
         IN evaluateLoop(coefficients, x, degree - 1, coefficients[degree + 1])

\* basisLoop with the numerator taken from sample i: add(x, si.x)
RECURSIVE basisLoopNumeratorFromSi(_, _, _, _, _)
basisLoopNumeratorFromSi(samples, x, i, j, basis) ==
    IF j >= Len(samples) THEN Ok(basis)
    ELSE IF i = j THEN basisLoopNumeratorFromSi(samples, x, i, j + 1, basis)
    ELSE LET si  == samples[i + 1]
             sj  == samples[j + 1]
             num == add(x, si.x)
             den == add(si.x, sj.x)
         IN IF ~IsOk(num) THEN num
            ELSE IF ~IsOk(den) THEN den
            ELSE LET term == div(num.val, den.val)
                 IN IF ~IsOk(term) THEN term
                    ELSE LET b == mul(basis, term.val)
                         IN IF ~IsOk(b) THEN b
                            ELSE basisLoopNumeratorFromSi(samples, x, i, j + 1, b.val)

\* basisLoop skipping sample j when its x equals sample i's (si.x === sj.x
\* for i === j)
RECURSIVE basisLoopSkipsEqualX(_, _, _, _, _)
basisLoopSkipsEqualX(samples, x, i, j, basis) ==
    IF j >= Len(samples) THEN Ok(basis)
    ELSE IF samples[i + 1].x = samples[j + 1].x
         THEN basisLoopSkipsEqualX(samples, x, i, j + 1, basis)
    ELSE LET si  == samples[i + 1]
             sj  == samples[j + 1]
             num == add(x, sj.x)
             den == add(si.x, sj.x)
         IN IF ~IsOk(num) THEN num
            ELSE IF ~IsOk(den) THEN den
            ELSE LET term == div(num.val, den.val)
                 IN IF ~IsOk(term) THEN term
                    ELSE LET b == mul(basis, term.val)
                         IN IF ~IsOk(b) THEN b
                            ELSE basisLoopSkipsEqualX(samples, x, i, j + 1, b.val)

\* the inner loop of interpolate over j (0-based), for sample i
RECURSIVE basisLoop(_, _, _, _, _)
basisLoop(samples, x, i, j, basis) ==
    IF j >= Len(samples) THEN Ok(basis)
    ELSE IF i = j THEN basisLoop(samples, x, i, j + 1, basis)
    ELSE LET si  == samples[i + 1]
             sj  == samples[j + 1]
             num == add(x, sj.x)
             den == add(si.x, sj.x)
         IN IF ~IsOk(num) THEN num
            ELSE IF ~IsOk(den) THEN den
            ELSE LET term == div(num.val, den.val)
                 IN IF ~IsOk(term) THEN term
                    ELSE LET b == mul(basis, term.val)
                         IN IF ~IsOk(b) THEN b
                            ELSE basisLoop(samples, x, i, j + 1, b.val)

\* interpolateLoop weighting the basis by the sample's x: mul(si.x, basis)
RECURSIVE interpolateLoopWeightByX(_, _, _, _)
interpolateLoopWeightByX(samples, x, i, result) ==
    IF i >= Len(samples) THEN Ok(result)
    ELSE LET basis == basisLoop(samples, x, i, 0, 1)
         IN IF ~IsOk(basis) THEN basis
            ELSE LET t == mul(samples[i + 1].x, basis.val)
                 IN IF ~IsOk(t) THEN t
                    ELSE LET r == add(result, t.val)
                         IN IF ~IsOk(r) THEN r
                            ELSE interpolateLoopWeightByX(samples, x, i + 1, r.val)

\* the outer loop of interpolate over i (0-based)
RECURSIVE interpolateLoop(_, _, _, _)
interpolateLoop(samples, x, i, result) ==
    IF i >= Len(samples) THEN Ok(result)
    ELSE LET basis == basisLoop(samples, x, i, 0, 1)
         IN IF ~IsOk(basis) THEN basis
            ELSE LET t == mul(samples[i + 1].y, basis.val)
                 IN IF ~IsOk(t) THEN t
                    ELSE LET r == add(result, t.val)
                         IN IF ~IsOk(r) THEN r
                            ELSE interpolateLoop(samples, x, i + 1, r.val)

interpolate(samples, x) ==
    IF ~validateByte(x) THEN Err("OutOfRange")
    ELSE IF Len(samples) = 0 THEN Err("EmptyInput")
    ELSE interpolateLoop(samples, x, 0, 0)

Max(m, n) == IF m >= n THEN m ELSE n

addPolynomials(a, b) ==
    LET copied == [k \in 1..Max(Len(a), Len(b)) |->
                       IF k <= Len(a) THEN a[k] ELSE 0]
    IN Ok([k \in 1..Max(Len(a), Len(b)) |->
               IF k <= Len(b) THEN ToUint8(add(copied[k], b[k]).val)
               ELSE copied[k]])

\* the nested loops of mulPolynomials from (i, j), 0-based, in source order
RECURSIVE mulPolynomialsLoop(_, _, _, _, _)
mulPolynomialsLoop(a, b, i, j, result) ==
    IF i >= Len(a) THEN result
    ELSE IF j >= Len(b) THEN mulPolynomialsLoop(a, b, i + 1, 0, result)
    ELSE LET idx     == i + j
             product == mul(a[i + 1], b[j + 1]).val
         IN mulPolynomialsLoop(a, b, i, j + 1,
                [result EXCEPT ![idx + 1] = ToUint8(add(@, product).val)])

mulPolynomials(a, b) ==
    IF Len(a) = 0 \/ Len(b) = 0 THEN Ok(<<>>)
    ELSE Ok(mulPolynomialsLoop(a, b, 0, 0,
                [k \in 1..(Len(a) + Len(b) - 1) |-> 0]))

----------------------------------------------------------------------------
(* Inputs of the calls *)

MaxCoeffs == 3      \* longest coefficient array passed to evaluate
MaxTerms == 2       \* longest operand of addPolynomials and mulPolynomials
MaxSamples == 3     \* most sample points passed to interpolate

\* first operands of the arithmetic methods: every byte, and -1 and 256, which
\* are not bytes
OperandInputs == (-1)..256
\* second operands of the arithmetic methods, operands of mulByte
ByteInputs == {-1, 0, 1, 2, 3, 83, 100, 128, 202, 254, 255, 256}
\* polynomials passed to the static helpers; -1 and 65536 are not 16-bit values
StaticPolyInputs == {-1, 0, 27, Polynomials_AES, Polynomials_REED_SOLOMON, 65536}
\* candidate generators passed to isGenerator
StaticGenInputs == (-1)..256
\* arguments of the constructor
PolyInputs == {-1, 0, Polynomials_AES, Polynomials_REED_SOLOMON, 65536}
GenInputs == {-1, 0, 1, Generators_FAST, Generators_AES, Generators_REED_SOLOMON, 255, 256}
\* polynomials with the low bytes 0x1B, 0x1D and 0x00 under several high bytes
\* (0x001B, 0x011B, 0xFF1B; 0x001D, 0x011D; 0x0000, 0x0100)
LowBytePolyInputs ==
    {27, Polynomials_AES, 65307, 29, Polynomials_REED_SOLOMON, 0, 256}
\* coefficients (a Uint8Array holds bytes only) and evaluation points
CoeffInputs == {0, 1, 2, 3, 255}
TermInputs == {0, 1, 2, 255}
PointXInputs == {-1, 0, 1, 2, 3, 255, 256}
\* sample coordinates and query points of interpolate
SampleXInputs == {0, 1, 2}
SampleYInputs == {0, 1, 83}
ShareXInputs == {1, 2, 3, 255}
ShareCoeffInputs == {0, 1, 83}
QueryInputs == {0, 1, 2, 3, 256}

\* the sequences over S of length 0..n
SeqsUpTo(S, n) == UNION {[1..k -> S] : k \in 0..n}

IsInjective(f) == \A i, j \in DOMAIN f : f[i] = f[j] => i = j

CoeffArrays == SeqsUpTo(CoeffInputs, MaxCoeffs)
TermArrays == SeqsUpTo(TermInputs, MaxTerms)

\* sample arrays of any shape: repeated and zero x-coordinates included
FreeSamples == SeqsUpTo([x : SampleXInputs, y : SampleYInputs], MaxSamples)
\* sample arrays whose coordinates are not all bytes
BadSamples ==
    {<<[x |-> 256, y |-> 1]>>, <<[x |-> 1, y |-> 256]>>,
     <<[x |-> 1, y |-> 1], [x |-> -1, y |-> 1]>>,
     <<[x |-> 1, y |-> -1], [x |-> 2, y |-> 1]>>}
\* the shares of a polynomial: d+1 coefficients evaluated at d+1 distinct
\* nonzero points (what a caller of evaluate hands to interpolate)
Shares(c, xs) == [k \in DOMAIN xs |-> [x |-> xs[k], y |-> evaluate(c, xs[k]).val]]
ShareSamples ==
    UNION {{Shares(c, xs) :
              c \in [1..n -> ShareCoeffInputs],
              xs \in {f \in [1..n -> ShareXInputs] : IsInjective(f)}} :
           n \in 1..MaxSamples}

----------------------------------------------------------------------------
(* State machine *)

NoTable == <<>>

Init ==
    /\ constructed = FALSE
    /\ poly = NoValue
    /\ gen = NoValue
    /\ exp = NoTable
    /\ log = NoTable
    /\ op = "none"
    /\ args = <<>>
    /\ ret = <<>>
    /\ err = "none"

\* a call `name` with arguments `a` ends with outcome r
Outcome(name, a, r) ==
    /\ op' = name
    /\ args' = a
    /\ ret' = IF IsOk(r) THEN <<r.val>> ELSE <<>>
    /\ err' = r.err

\* a method is called on an instance, one call at a time (the guard stands
\* before the inputs in Next as well, so that they are drawn only then)
Ready == constructed /\ op = "none"

\* new GF256(p, g)
Construct(p, g) ==
    /\ ~constructed
    /\ op = "none"
    /\ LET r == constructor(p, g)
       IN /\ op' = "constructor"
          /\ args' = <<p, g>>
          /\ ret' = <<>>
          /\ err' = r.err
          /\ IF IsOk(r)
             THEN /\ constructed' = TRUE
                  /\ poly' = r.val.poly
                  /\ gen' = r.val.gen
                  /\ exp' = r.val.exp
                  /\ log' = r.val.log
             ELSE UNCHANGED fieldVars

Mul(a, b) ==
    /\ Ready
    /\ Outcome("mul", <<a, b>>, mul(a, b))
    /\ UNCHANGED fieldVars

\* Div keeping the divisor's logarithm in the unused entry log[0]
DivCachingLog(a, b) ==
    /\ Ready
    /\ Outcome("div", <<a, b>>, div(a, b))
    /\ log' = [log EXCEPT ![0] = IF validateByte(b) THEN log[b] ELSE @]
    /\ UNCHANGED <<constructed, poly, gen, exp>>

Div(a, b) ==
    /\ Ready
    /\ Outcome("div", <<a, b>>, div(a, b))
    /\ UNCHANGED fieldVars

Inv(a) ==
    /\ Ready
    /\ Outcome("inv", <<a>>, inv(a))
    /\ UNCHANGED fieldVars

Add(a, b) ==
    /\ Ready
    /\ Outcome("add", <<a, b>>, add(a, b))
    /\ UNCHANGED fieldVars

Sub(a, b) ==
    /\ Ready
    /\ Outcome("sub", <<a, b>>, sub(a, b))
    /\ UNCHANGED fieldVars

Evaluate(coefficients, x) ==
    /\ Ready
    /\ Outcome("evaluate", <<coefficients, x>>, evaluate(coefficients, x))
    /\ UNCHANGED fieldVars

Interpolate(samples, x) ==
    /\ Ready
    /\ Outcome("interpolate", <<samples, x>>, interpolate(samples, x))
    /\ UNCHANGED fieldVars

AddPolynomials(a, b) ==
    /\ Ready
    /\ Outcome("addPolynomials", <<a, b>>, addPolynomials(a, b))
    /\ UNCHANGED fieldVars

MulPolynomials(a, b) ==
    /\ Ready
    /\ Outcome("mulPolynomials", <<a, b>>, mulPolynomials(a, b))
    /\ UNCHANGED fieldVars

\* the static helpers need no instance
MulByte(a, b, p) ==
    /\ op = "none"
    /\ Outcome("mulByte", <<a, b, p>>, mulByte(a, b, p))
    /\ UNCHANGED fieldVars

IsGenerator(p, g) ==
    /\ op = "none"
    /\ Outcome("isGenerator", <<p, g>>, isGenerator(p, g))
    /\ UNCHANGED fieldVars

FindAllGenerators(p) ==
    /\ op = "none"
    /\ Outcome("findAllGenerators", <<p>>, findAllGenerators(p))
    /\ UNCHANGED fieldVars

\* the caller takes the outcome of the call
Return ==
    /\ op # "none"
    /\ op' = "none"
    /\ args' = <<>>
    /\ ret' = <<>>
    /\ err' = "none"
    /\ UNCHANGED fieldVars

Next ==
    \/ \E p \in PolyInputs, g \in GenInputs : Construct(p, g)
    \/ Ready /\ \E a \in OperandInputs, b \in ByteInputs : Mul(a, b)
    \/ Ready /\ \E a \in OperandInputs, b \in ByteInputs : Div(a, b)
    \/ Ready /\ \E a \in OperandInputs : Inv(a)
    \/ Ready /\ \E a \in OperandInputs, b \in ByteInputs : Add(a, b)
    \/ Ready /\ \E a \in OperandInputs, b \in ByteInputs : Sub(a, b)
    \/ Ready /\ \E c \in CoeffArrays, x \in PointXInputs : Evaluate(c, x)
    \/ Ready /\ \E s \in FreeSamples \cup BadSamples \cup ShareSamples,
                   x \in QueryInputs : Interpolate(s, x)
    \/ Ready /\ \E a, b \in TermArrays : AddPolynomials(a, b)
    \/ Ready /\ \E a, b \in TermArrays : MulPolynomials(a, b)
    \/ Return

Spec == Init /\ [][Next]_vars

\* the static helpers alone, called with no instance at hand
StaticNext ==
    \/ op = "none" /\ \E a, b \in ByteInputs, p \in StaticPolyInputs : MulByte(a, b, p)
    \/ op = "none" /\ \E p \in StaticPolyInputs, g \in StaticGenInputs : IsGenerator(p, g)
    \/ op = "none" /\ \E p \in StaticPolyInputs : FindAllGenerators(p)
    \/ Return

StaticSpec == Init /\ [][StaticNext]_vars

\* mulByte, isGenerator and the constructor called with polynomials that
\* differ in their high byte only
LowByteNext ==
    \/ \E p \in LowBytePolyInputs, g \in GenInputs : Construct(p, g)
    \/ op = "none" /\ \E a, b \in ByteInputs, p \in LowBytePolyInputs : MulByte(a, b, p)
    \/ op = "none" /\ \E p \in LowBytePolyInputs, g \in GenInputs : IsGenerator(p, g)
    \/ Return

LowByteSpec == Init /\ [][LowByteNext]_vars

----------------------------------------------------------------------------
(* Claims about the static helpers, checked under StaticSpec *)

\* the elements of a sequence
Range(q) == {q[k] : k \in DOMAIN q}

\* q followed by the next power: the last element times g modulo p
PowersStep(q, p, g) == Append(q, mulByte(q[Len(q)], g, p).val)

\* the sequence q extended by successive powers up to length n
RECURSIVE PowersLoop(_, _, _, _, _)
PowersLoop(k, q, n, p, g) ==
    IF k = 0 \/ Len(q) >= n THEN q
    ELSE IF k = 1 THEN PowersStep(q, p, g)
    ELSE PowersLoop(k - (k \div 2), PowersLoop(k \div 2, q, n, p, g), n, p, g)

\* 1, g, g^2, ..., g^254 modulo p
Powers(p, g) == PowersLoop(256, <<1>>, 255, p, g)

\* C1: findAllGenerators(p) returns exactly the bytes g for which
\* isGenerator(p, g) is true, in ascending order.
C1_FindAllGeneratorsIsComplete ==
    (op = "findAllGenerators" /\ err = "none") =>
        /\ \A g \in Byte : (g \in Range(ret[1])) <=> isGenerator(args[1], g).val
        /\ \A j, k \in DOMAIN ret[1] : j < k => ret[1][j] < ret[1][k]

\* C10: isGenerator(p, g) is true exactly when the 255 values 1, g, ...,
\* g^254 are pairwise distinct and all nonzero; it is false for g = 0 and
\* g = 1 whatever p, and true for the AES polynomial and generator.
C10_IsGeneratorIffFullCycle ==
    (op = "isGenerator" /\ err = "none") =>
        LET p == args[1]
            g == args[2]
            q == Powers(p, g)
        IN /\ ret[1] <=> (Cardinality(Range(q)) = 255 /\ 0 \notin Range(q))
           /\ g \in {0, 1} => ret[1] = FALSE
           /\ (p = Polynomials_AES /\ g = Generators_AES) => ret[1] = TRUE

C10_Witness ==
    /\ op = "isGenerator"
    /\ args = <<Polynomials_REED_SOLOMON, Generators_AES>>
    /\ err = "none"
    /\ ret = <<FALSE>>

----------------------------------------------------------------------------
(* Claims about the constructor and the instance methods, checked under Spec *)

\* C2: for a 16-bit polynomial and a byte generator, construction succeeds
\* exactly when isGenerator holds of the pair; otherwise it fails with
\* InvalidGenerator and there is no instance.
C2_ConstructIffGenerator ==
    (op = "constructor" /\ validateUInt16(args[1]) /\ validateByte(args[2])) =>
        /\ (err = "none") <=> isGenerator(args[1], args[2]).val
        /\ err = "none" =>
               (constructed /\ poly = args[1] /\ gen = args[2]
                    /\ DOMAIN exp = 0..511 /\ DOMAIN log = 0..255)
        /\ err # "none" =>
               (err = "InvalidGenerator" /\ ~constructed
                    /\ exp = NoTable /\ log = NoTable)
        /\ args \in {<<Polynomials_AES, Generators_AES>>,
                     <<Polynomials_REED_SOLOMON, Generators_REED_SOLOMON>>,
                     <<Polynomials_REED_SOLOMON, Generators_FAST>>}
               => err = "none"
        /\ args = <<Polynomials_REED_SOLOMON, Generators_AES>> => err # "none"

C2_Witness ==
    /\ op = "constructor"
    /\ args = <<Polynomials_REED_SOLOMON, Generators_AES>>
    /\ err = "InvalidGenerator"
    /\ ~constructed

\* C3: once the instance exists, no step changes its polynomial, generator,
\* exp table or log table, whichever method is called and whether it
\* returns or throws.
C3_FieldNeverChanges ==
    [][constructed =>
        (constructed' /\ poly' = poly /\ gen' = gen /\ exp' = exp /\ log' = log)]_vars

C3_Witness ==
    /\ constructed
    /\ op = "interpolate"
    /\ err = "DivisionByZero"

\* C4: for every nonzero byte a, inv(a) returns a nonzero byte whose
\* product with a is 1; inv(1) = 1.
C4_InvIsInverse ==
    (op = "inv" /\ args[1] \in 1..255) =>
        /\ err = "none"
        /\ ret[1] \in 1..255
        /\ mul(args[1], ret[1]) = Ok(1)
        /\ args[1] = 1 => ret[1] = 1

C4_Witness ==
    /\ op = "inv"
    /\ args = <<83>>
    /\ err = "none"
    /\ ret[1] # 83

\* C5: for every byte a and nonzero byte b, dividing the product mul(a, b)
\* by b gives a back.
C5_DivUndoesMul ==
    (op = "mul" /\ args[1] \in Byte /\ args[2] \in 1..255) =>
        /\ err = "none"
        /\ div(ret[1], args[2]) = Ok(args[1])

C5_Witness ==
    /\ op = "mul"
    /\ args = <<202, 83>>
    /\ err = "none"
    /\ ret[1] \notin {0, 83, 202}

\* C6: multiplication distributes over addition: with s the sum add(a, b),
\* mul(s, c) = add(mul(a, c), mul(b, c)) for every byte c.
C6_MulDistributesOverAdd ==
    (op = "add" /\ args[1] \in Byte /\ args[2] \in Byte) =>
        /\ err = "none"
        /\ \A c \in Byte :
               mul(ret[1], c) = add(mul(args[1], c).val, mul(args[2], c).val)

C6_Witness ==
    /\ op = "add"
    /\ args = <<83, 202>>
    /\ ret = <<153>>
    /\ poly = Polynomials_AES

\* C7: mul and add are associative: with r the result of mul(a, b) (of
\* add(a, b)), mul(r, c) = mul(a, mul(b, c)) (add(r, c) = add(a, add(b, c)))
\* for every byte c.
C7_MulAndAddAssociative ==
    /\ (op = "mul" /\ args[1] \in Byte /\ args[2] \in Byte) =>
           /\ err = "none"
           /\ \A c \in Byte :
                  mul(ret[1], c) = mul(args[1], mul(args[2], c).val)
    /\ (op = "add" /\ args[1] \in Byte /\ args[2] \in Byte) =>
           /\ err = "none"
           /\ \A c \in Byte :
                  add(ret[1], c) = add(args[1], add(args[2], c).val)

C7_Witness ==
    /\ op = "mul"
    /\ args = <<100, 100>>
    /\ ret = <<215>>
    /\ poly = Polynomials_AES

\* the samples all have byte coordinates
ValidSamples(samples) ==
    \A k \in DOMAIN samples : validateByte(samples[k].x) /\ validateByte(samples[k].y)

\* the samples' x-coordinates are pairwise distinct
DistinctX(samples) ==
    \A j, k \in DOMAIN samples : samples[j].x = samples[k].x => j = k

\* C8: over a non-empty sample set with pairwise distinct x-coordinates,
\* interpolate at a sample's x returns that sample's y.
C8_InterpolateHitsSamples ==
    (op = "interpolate" /\ ValidSamples(args[1]) /\ DistinctX(args[1])) =>
        \A i \in DOMAIN args[1] :
            args[1][i].x = args[2] => (err = "none" /\ ret[1] = args[1][i].y)

\* a Lagrange delta over three samples, queried at a sample whose y is 0
C8_Witness ==
    /\ op = "interpolate"
    /\ args = << <<[x |-> 2, y |-> 0], [x |-> 0, y |-> 1], [x |-> 1, y |-> 0]>>, 1 >>
    /\ ret = <<0>>

\* C9: the d+1 samples of a polynomial c of d+1 coefficients, taken at
\* pairwise distinct nonzero points, interpolate to evaluate(c, x) at every
\* nonzero byte x; a single sample returns its y for every byte x.
C9_InterpolateRecoversPolynomial ==
    (op = "interpolate" /\ validateByte(args[2]) /\ Len(args[1]) >= 1
                        /\ ValidSamples(args[1]) /\ DistinctX(args[1])) =>
        LET samples == args[1]
            x       == args[2]
        IN /\ x # 0 =>
                  \A c \in [DOMAIN samples -> ShareCoeffInputs] :
                      (\A k \in DOMAIN samples :
                           /\ samples[k].x # 0
                           /\ evaluate(c, samples[k].x) = Ok(samples[k].y))
                      => (err = "none" /\ ret[1] = evaluate(c, x).val)
           /\ Len(samples) = 1 => (err = "none" /\ ret[1] = samples[1].y)

\* the shares of 83 + x + 83 x^2 at 1, 2 and 255, queried beyond them at 3
C9_Witness ==
    /\ op = "interpolate"
    /\ args = <<Shares(<<83, 1, 83>>, <<1, 2, 255>>), 3>>
    /\ err = "none"
    /\ ret[1] = evaluate(<<83, 1, 83>>, 3).val

\* x raised to the power k, by k table multiplications
RECURSIVE Pow(_, _)
Pow(x, k) == IF k = 0 THEN 1 ELSE mul(Pow(x, k - 1), x).val

\* the XOR of the terms mul(c[i], x^i) for the 0-based indices i < n
RECURSIVE TermSum(_, _, _)
TermSum(c, x, n) ==
    IF n = 0 THEN 0
    ELSE BitXor(TermSum(c, x, n - 1), mul(c[n], Pow(x, n - 1)).val)

\* C11: for a byte x, evaluate fails with EmptyPolynomial on an empty
\* coefficient array, with InvalidEvaluationPoint at x = 0 on a non-empty
\* one, and otherwise returns the XOR over i of mul(coefficients[i], x^i);
\* on the AES field evaluate([1,2,3], 1) = 0 and evaluate([1,2,3], 2) = 9.
C11_EvaluateIsPolynomialValue ==
    (op = "evaluate" /\ validateByte(args[2])) =>
        LET c == args[1]
            x == args[2]
        IN /\ Len(c) = 0 => (err = "EmptyPolynomial" /\ ret = <<>>)
           /\ (Len(c) > 0 /\ x = 0) =>
                  (err = "InvalidEvaluationPoint" /\ ret = <<>>)
           /\ (Len(c) > 0 /\ x # 0) =>
                  (err = "none" /\ ret = <<TermSum(c, x, Len(c))>>)
           /\ (poly = Polynomials_AES /\ c = <<1, 2, 3>> /\ x = 1) => ret = <<0>>
           /\ (poly = Polynomials_AES /\ c = <<1, 2, 3>> /\ x = 2) => ret = <<9>>

C11_Witness ==
    /\ op = "evaluate"
    /\ poly = Polynomials_AES
    /\ args = << <<1, 2, 3>>, 2 >>
    /\ ret = <<9>>

\* C12: add, sub, mul, div and inv throw OutOfRange and return nothing when
\* an operand is not an integer in 0..255; div(a, 0) throws DivisionByZero
\* for every byte a, a = 0 included; inv(0) throws NoInverseForZero.
C12_ArithmeticRejectsBadOperands ==
    /\ op \in {"add", "sub", "mul", "div"} =>
           /\ (~validateByte(args[1]) \/ ~validateByte(args[2])) =>
                  (err = "OutOfRange" /\ ret = <<>>)
           /\ (op = "div" /\ validateByte(args[1]) /\ args[2] = 0) =>
                  (err = "DivisionByZero" /\ ret = <<>>)
    /\ op = "inv" =>
           /\ ~validateByte(args[1]) => (err = "OutOfRange" /\ ret = <<>>)
           /\ args[1] = 0 => (err = "NoInverseForZero" /\ ret = <<>>)

C12_Witness ==
    /\ op = "div"
    /\ args = <<0, 0>>
    /\ err = "DivisionByZero"
    /\ ret = <<>>

\* C13: whenever two samples of byte coordinates share an x-coordinate,
\* interpolate throws DivisionByZero and returns nothing, for every query
\* byte x, every choice of y values and every position of the two samples.
C13_RepeatedXDividesByZero ==
    (op = "interpolate" /\ validateByte(args[2])
                        /\ ValidSamples(args[1]) /\ ~DistinctX(args[1])) =>
        (err = "DivisionByZero" /\ ret = <<>>)

\* the repeated x sits in the last two samples and is the query point, so
\* that the first basis is computed in full and the failing numerator is 0
C13_Witness ==
    /\ op = "interpolate"
    /\ args = << <<[x |-> 0, y |-> 1], [x |-> 1, y |-> 83], [x |-> 1, y |-> 0]>>, 1 >>
    /\ err = "DivisionByZero"
    /\ ret = <<>>

\* bit k of the non-negative integer v
Bit(v, k) == (v \div (2 ^ k)) % 2

\* at most n iterations of `result = add(result, v)` (i < 255) from loop
\* state s
RECURSIVE AddFoldLoop(_, _, _)
AddFoldLoop(n, s, v) ==
    IF n = 0 \/ ~(s.i < 255) THEN s
    ELSE IF n = 1 THEN [i |-> s.i + 1, result |-> add(s.result, v).val]
    ELSE AddFoldLoop(n - (n \div 2), AddFoldLoop(n \div 2, s, v), v)

\* v added into 0, 255 times
AddFold(v) == AddFoldLoop(256, [i |-> 0, result |-> 0], v).result

\* C14: for all bytes a, b, add(a, b) and sub(a, b) return the same byte,
\* the bitwise XOR of a and b; so add(a, a) = 0, add(a, 0) = add(0, a) = a,
\* and adding a value into 0 an odd number of times (255 times) gives it back.
C14_AddSubAreXor ==
    (op \in {"add", "sub"} /\ validateByte(args[1]) /\ validateByte(args[2])) =>
        LET a == args[1]
            b == args[2]
        IN /\ err = "none"
           /\ ret[1] \in Byte
           /\ \A k \in 0..7 : Bit(ret[1], k) = (Bit(a, k) + Bit(b, k)) % 2
           /\ add(a, b) = sub(a, b)
           /\ a = b => ret[1] = 0
           /\ b = 0 => ret[1] = a
           /\ a = 0 => ret[1] = b
           /\ AddFold(a) = a

C14_Witness ==
    /\ op = "sub"
    /\ args = <<83, 202>>
    /\ ret = <<153>>

\* C15: after a successful construction exp holds 512 bytes with
\* exp[i] = gen^(i mod 255) for every index i in 0..511, so exp[i + 255] =
\* exp[i] wherever both indices exist, index 511 included.
C15_ExpHasPeriod255 ==
    (op = "constructor" /\ err = "none") =>
        LET q == Powers(poly, gen)
        IN /\ DOMAIN exp = 0..(ExpLength - 1)
           /\ \A i \in 0..(ExpLength - 1) : exp[i] = q[(i % 255) + 1]
           /\ \A i \in 0..(ExpLength - 1 - 255) : exp[i + 255] = exp[i]

\* C16: in every constructed field, mul(a, b) over bytes returns what the
\* bit-by-bit mulByte(a, b, poly) returns, zero operands included; so
\* mul(a, 1) = a and mul(a, 0) = 0, on the AES field mul(100, 100) = 215 and
\* mul(255, 255) = 19, and the generator that built the tables plays no part.
C16_MulAgreesWithMulByte ==
    (op = "mul" /\ validateByte(args[1]) /\ validateByte(args[2])) =>
        LET a == args[1]
            b == args[2]
        IN /\ err = "none"
           /\ mulByte(a, b, poly) = Ok(ret[1])
           /\ b = 1 => ret[1] = a
           \* every second operand, once for each first operand
           /\ b = 1 => \A c \in Byte : mul(a, c) = mulByte(a, c, poly)
           /\ a = 1 => ret[1] = b
           /\ (a = 0 \/ b = 0) => ret[1] = 0
           /\ (poly = Polynomials_AES /\ a = 100 /\ b = 100) => ret[1] = 215
           /\ (poly = Polynomials_AES /\ a = 255 /\ b = 255) => ret[1] = 19

\* the AES literal in the field built with the generator 0xFF, not 0x03
C16_Witness ==
    /\ op = "mul"
    /\ poly = Polynomials_AES
    /\ gen = 255
    /\ args = <<255, 255>>
    /\ ret = <<19>>

----------------------------------------------------------------------------
(* Claims about the polynomial argument, checked under LowByteSpec *)

\* high bytes put above a low byte
HighByteInputs == {0, 1, 2, 128, 255}

\* 16-bit polynomials with the low byte of p
SameLowByte(p) == {(h * 256) + (p % 256) : h \in HighByteInputs}

\* C17: only the low 8 bits of the polynomial matter: for 16-bit p and q
\* with the same low byte, mulByte(a, b, q) = mulByte(a, b, p),
\* isGenerator(q, g) = isGenerator(p, g), and new GF256(q, g) succeeds
\* exactly when new GF256(p, g) does, with the same exp and log tables.
C17_OnlyLowByteOfPolynomial ==
    /\ (op = "mulByte" /\ validateUInt16(args[3])) =>
           \A q \in SameLowByte(args[3]) :
               LET r == mulByte(args[1], args[2], q)
               IN r.err = err /\ (err = "none" => r.val = ret[1])
    /\ (op = "isGenerator" /\ validateUInt16(args[1])) =>
           \A q \in SameLowByte(args[1]) :
               LET r == isGenerator(q, args[2])
               IN r.err = err /\ (err = "none" => r.val = ret[1])
    /\ (op = "constructor" /\ validateUInt16(args[1])) =>
           \A q \in SameLowByte(args[1]) :
               LET r == constructor(q, args[2])
               IN /\ r.err = err
                  /\ err = "none" => (r.val.exp = exp /\ r.val.log = log)

\* 0xFF1B builds a field with the AES generator
C17_Witness ==
    /\ op = "constructor"
    /\ args = <<65307, Generators_AES>>
    /\ err = "none"
    /\ constructed
    /\ poly = 65307
    /\ exp[1] = Generators_AES

====
